---- MODULE Spec2Model ----
(***************************************************************************)
(* Model of the terminal dashboard (src/tui/app.py) and of the HTTP API    *)
(* it reads (src/backend/app/main.py).                                     *)
(*                                                                         *)
(* The dashboard is a set of asyncio coroutines on one event loop.  A      *)
(* coroutine runs without interruption between two awaits, so every        *)
(* action below is one such segment: from the call (or the resumption of   *)
(* an await) to the next await (or the return).                            *)
(***************************************************************************)
EXTENDS Integers, Sequences, FiniteSets, TLC

(***************************************************************************)
(* Bounds of the model.                                                    *)
(***************************************************************************)
MaxCycles == 2          \* calls of load_data
MaxListLen == 2         \* items in a list response
MaxStockFetches == 2    \* calls of render_stock_detail
MaxStartupFetches == 1  \* calls of render_startup_detail
MaxData == 2            \* records in STOCKS, STARTUPS and WATCHLIST
MaxSparkLen == 3        \* values given to a Sparkline
MaxValue == 4           \* the largest of these values

None == [none |-> TRUE]   \* Python's None, where the field holds an object

(***************************************************************************)
(* What a fetch can raise: httpx.TimeoutException after timeout=10,        *)
(* httpx.ConnectError, raise_for_status() on a non-2xx answer, and         *)
(* response.json() on a body that is not JSON.                             *)
(***************************************************************************)
FetchErrors == {"Timeout", "ConnectionRefused", "HTTPStatus", "DecodeError"}

Tickers == {"RELIANCE", "TCS"}
StartupIds == {"airship", "voltgrid"}

(***************************************************************************)
(* JSON bodies the list endpoints may answer with.  An item that lacks a   *)
(* field the client reads is "malformed": reading it raises KeyError.      *)
(***************************************************************************)
StockItems ==
    { [ticker |-> t, price |-> p, daily_change_pct |-> c] :
          t \in Tickers, p \in {100}, c \in {1} }
    \cup { [ticker |-> "TCS"] }

StartupItems ==
    { [id |-> i, status |-> "Watch"] : i \in StartupIds }
    \cup { [id |-> "voltgrid"] }

SeqsUpTo(S, n) == UNION { [1..k -> S] : k \in 0..n }

StockListBodies == SeqsUpTo(StockItems, MaxListLen)
StartupListBodies == SeqsUpTo(StartupItems, MaxListLen)

OverviewBodies ==
    { [as_of |-> "09:15", advance_decline |-> [advances |-> 30, declines |-> 20]],
      [as_of |-> "15:30", advance_decline |-> [advances |-> 12, declines |-> 38]],
      [as_of |-> "15:30"] }

(***************************************************************************)
(* What the await of client.get, raise_for_status() and response.json()    *)
(* hand to the coroutine: an exception, or the decoded JSON body.          *)
(***************************************************************************)
Raised(exc) == [ok |-> FALSE, exc |-> exc]
Body(data) == [ok |-> TRUE, body |-> data]
Responses(bodies) == { Raised(e) : e \in FetchErrors } \cup { Body(b) : b \in bodies }

(***************************************************************************)
(* StatusBar.status: the text of the single status line.                   *)
(***************************************************************************)
Status(kind, exc) == [kind |-> kind, exc |-> exc]
Idle == Status("Idle", "")
Fetching == Status("Fetching data", "")
Ready == Status("Ready", "")

VARIABLES
    status,            \* status_bar.status
    overview_loading,  \* overview_panel.loading
    overview,          \* overview_panel.overview
    stocks_rows,       \* rows of stocks_table, in order
    startups_rows,     \* rows of startups_table, in order
    ld_pc,             \* position of load_data
    task_pc,           \* position of each coroutine passed to gather
    cycles,            \* calls of load_data so far
    outcome,           \* history: how each category's last fetch ended
    exact,             \* history: the category's view holds the whole of its last answer
    last_error,        \* history: the status written by the cycle's last failure
    unhandled,         \* coroutines that ended with an exception
    source,            \* the data source: any answer at any time, or one fixed answer per endpoint
    first_view,        \* history: the view and status the first run over a fixed source left
    last_good,         \* history: per category, what its view held after its last good fetch
    sd_text,           \* stock_detail.text
    sd_values,         \* stock_detail.sparkline.values
    sd_label,          \* stock_detail.sparkline.label
    current_stock,     \* stock_detail.current_stock
    timeframe,         \* stock_detail.timeframe
    tf_active,         \* the timeframe buttons that carry the class "active"
    sd_calls,          \* calls of render_stock_detail awaiting their answer
    sd_started,        \* calls of render_stock_detail so far
    sd_log,            \* history: the calls of render_stock_detail that returned
    su_text,           \* startup_detail.text
    su_hiring,         \* startup_detail.hiring.values
    su_buzz,           \* startup_detail.buzz.values
    su_calls,          \* calls of render_startup_detail awaiting their answer
    su_started,        \* calls of render_startup_detail so far
    su_log,            \* history: the calls of render_startup_detail that returned
    active_tab,        \* the active pane of main_tabs
    ai_topic,          \* the topic of the last call of insight_pane.ask_about
    STOCKS,            \* app.data.STOCKS
    STARTUPS,          \* app.data.STARTUPS
    WATCHLIST,         \* app.data.WATCHLIST
    api_request,       \* the path of the last GET the API received
    api_response,      \* the answer the API gave to it
    sp_values,         \* Sparkline.values of a sparkline on its own
    sp_text            \* what Sparkline.render returned for them

refreshVars == <<status, overview_loading, overview, stocks_rows, startups_rows,
                 ld_pc, task_pc, cycles, outcome, exact, last_error, unhandled,
                 source, first_view, last_good>>

stockDetailVars == <<sd_text, sd_values, sd_label, current_stock, timeframe,
                     tf_active, sd_calls, sd_started, sd_log>>

startupDetailVars == <<su_text, su_hiring, su_buzz, su_calls, su_started, su_log>>

insightVars == <<active_tab, ai_topic>>

detailVars == <<stockDetailVars, startupDetailVars, insightVars>>

apiVars == <<STOCKS, STARTUPS, WATCHLIST, api_request, api_response>>

sparkVars == <<sp_values, sp_text>>

vars == <<refreshVars, detailVars, apiVars, sparkVars>>

Categories == {"overview", "stocks", "startups"}

NoError == Status("", "")

(***************************************************************************)
(* The content of a detail pane's Static: nothing, the lines of a record,  *)
(* or "Failed to load {id}: {exc}".                                        *)
(***************************************************************************)
Blank == [kind |-> "blank", subject |-> "", exc |-> ""]
DetailText(subject) == [kind |-> "detail", subject |-> subject, exc |-> ""]
FailedToLoad(id, exc) == [kind |-> "error", subject |-> id, exc |-> exc]

(***************************************************************************)
(* Sparkline.render.  The values of the model are integers, for which the  *)
(* float expression int((value - min_val) / span * 7) is the integer       *)
(* quotient of 7 * (value - min_val) by span.  A division by zero and an   *)
(* index outside blocks are results of their own, as they raise.           *)
(***************************************************************************)
Blocks == <<"U+0020", "U+2582", "U+2583", "U+2584", "U+2585", "U+2586", "U+2587", "U+2588">>

RECURSIVE MinOf(_)
MinOf(values) ==
    IF Len(values) = 1 THEN values[1]
    ELSE LET m == MinOf(Tail(values)) IN IF values[1] < m THEN values[1] ELSE m

RECURSIVE MaxOf(_)
MaxOf(values) ==
    IF Len(values) = 1 THEN values[1]
    ELSE LET m == MaxOf(Tail(values)) IN IF values[1] > m THEN values[1] ELSE m

SpanUnguarded(min_val, max_val) == max_val - min_val

Span(min_val, max_val) == IF max_val # min_val THEN max_val - min_val ELSE 1

StepsOffByOne == Len(Blocks)

Steps == Len(Blocks) - 1

(* Python's round(): to the nearest integer, a tie to the even one. *)
RoundHalfEven(num, den) ==
    LET q == num \div den
        r == num % den
    IN  IF 2 * r < den THEN q
        ELSE IF 2 * r > den THEN q + 1
        ELSE IF q % 2 = 0 THEN q ELSE q + 1

ScaledRounded(value, min_val, span) == RoundHalfEven((value - min_val) * Steps, span)

ScaledFromMax(value, min_val, span) == ((min_val + span - value) * Steps) \div span

Scaled(value, min_val, span) == ((value - min_val) * Steps) \div span

Glyph(idx) == IF idx + 1 \in DOMAIN Blocks THEN Blocks[idx + 1] ELSE "IndexError"

NoData == [kind |-> "no data"]

Render(values) ==
    IF values = <<>> THEN NoData
    ELSE LET min_val == MinOf(values)
             max_val == MaxOf(values)
             span == Span(min_val, max_val)
         IN  IF span = 0 THEN [kind |-> "ZeroDivisionError"]
             ELSE LET scaled == [i \in 1..Len(values) |-> Scaled(values[i], min_val, span)]
                  IN  IF \E i \in 1..Len(scaled) : Glyph(scaled[i]) = "IndexError"
                        THEN [kind |-> "IndexError", scaled |-> scaled]
                        ELSE [kind |-> "line", scaled |-> scaled,
                              line |-> [i \in 1..Len(scaled) |-> Glyph(scaled[i])],
                              min_val |-> min_val, max_val |-> max_val]

SparkInit ==
    /\ sp_values = <<>>
    /\ sp_text = Render(<<>>)

(***************************************************************************)
(* The data the API serves: lists of records with distinct identities.     *)
(***************************************************************************)
TimeframeKeys == {"1M", "6M", "1Y"}

StockData ==
    { [ticker |-> t, name |-> t, price |-> 100,
       series |-> [k \in TimeframeKeys |-> <<[date |-> 1, price |-> 100]>>]] :
          t \in Tickers }

StartupData == { [id |-> i, name |-> i, status |-> "Watch"] : i \in StartupIds }

DistinctSeqs(S, n) ==
    { q \in SeqsUpTo(S, n) : \A i, j \in 1..Len(q) : q[i] = q[j] => i = j }

NoRequest == <<>>
NoResponse == [status |-> 0]

ApiInit ==
    /\ STOCKS \in DistinctSeqs(StockData, MaxData)
    /\ STARTUPS \in DistinctSeqs(StartupData, MaxData)
    /\ WATCHLIST \in DistinctSeqs(Tickers, MaxData)
    /\ api_request = NoRequest
    /\ api_response = NoResponse

(* The API is another process: the specifications of the dashboard take    *)
(* its answers as inputs and leave its variables at these values.          *)
ApiAbsent ==
    /\ STOCKS = <<>>
    /\ STARTUPS = <<>>
    /\ WATCHLIST = <<>>
    /\ api_request = NoRequest
    /\ api_response = NoResponse

NoTopic == ""

NoView == <<>>

DashboardInit ==
    /\ status = Idle
    /\ overview_loading = TRUE
    /\ overview = None
    /\ stocks_rows = <<>>
    /\ startups_rows = <<>>
    /\ ld_pc = "idle"
    /\ task_pc = [c \in Categories |-> "idle"]
    /\ cycles = 0
    /\ outcome = [c \in Categories |-> "none"]
    /\ exact = [c \in Categories |-> FALSE]
    /\ last_error = NoError
    /\ unhandled = {}
    /\ first_view = NoView
    /\ last_good = [c \in Categories |-> IF c = "overview" THEN None ELSE <<>>]
    /\ sd_text = Blank
    /\ sd_values = <<>>
    /\ sd_label = "Price Trend"
    /\ current_stock = None
    /\ timeframe = "6M"
    /\ tf_active = {"tf_6m"}
    /\ sd_calls = {}
    /\ sd_started = 0
    /\ sd_log = <<>>
    /\ su_text = Blank
    /\ su_hiring = <<>>
    /\ su_buzz = <<>>
    /\ su_calls = {}
    /\ su_started = 0
    /\ su_log = <<>>
    /\ active_tab = "stocks"
    /\ ai_topic = NoTopic

(* The data source answers a fetch with any answer at any time ...        *)
SourceFree == source = [fixed |-> FALSE]

(* ... or does not change: each endpoint has one answer, the same in every *)
(* refresh cycle.                                                          *)
SourceUnchanged ==
    \E o \in Responses(OverviewBodies) :
    \E s \in Responses(StockListBodies) :
    \E u \in Responses(StartupListBodies) :
        source = [fixed |-> TRUE,
                  answers |-> [overview |-> o, stocks |-> s, startups |-> u]]

Init == DashboardInit /\ SourceFree /\ ApiAbsent /\ SparkInit

InitUnchanged == DashboardInit /\ SourceUnchanged /\ ApiAbsent /\ SparkInit

InitApi == DashboardInit /\ SourceFree /\ ApiInit /\ SparkInit

(***************************************************************************)
(* MarketOverview(...) built from the JSON body; a missing key raises.     *)
(***************************************************************************)
OverviewMalformed(data) ==
    ~ ({"as_of", "advance_decline"} \subseteq DOMAIN data)

ParseOverview(data) ==
    [as_of |-> data.as_of,
     advances |-> data.advance_decline.advances,
     declines |-> data.advance_decline.declines]

(***************************************************************************)
(* The loop of load_stocks over the items of the body: each item becomes   *)
(* a row keyed by its ticker.  Reading a missing field raises KeyError and *)
(* DataTable.add_row raises DuplicateKey for a key the table already has;  *)
(* the rows added before the exception stay in the table.                  *)
(***************************************************************************)
Keys(rows) == { rows[i].key : i \in 1..Len(rows) }

ChangeStyle(change) == IF change >= 0 THEN "#22c55e" ELSE "#ef4444"

StockRow(item) ==
    [key |-> item.ticker,
     cells |-> <<item.ticker, item.price,
                 item.daily_change_pct, ChangeStyle(item.daily_change_pct)>>]

StockItemMalformed(item) ==
    ~ ({"ticker", "price", "daily_change_pct"} \subseteq DOMAIN item)

RECURSIVE AddStockRows(_, _)
AddStockRows(rows, data) ==
    IF data = <<>> THEN [rows |-> rows, exc |-> ""]
    ELSE IF StockItemMalformed(Head(data)) THEN [rows |-> rows, exc |-> "KeyError"]
    ELSE IF Head(data).ticker \in Keys(rows) THEN [rows |-> rows, exc |-> "DuplicateKey"]
    ELSE AddStockRows(Append(rows, StockRow(Head(data))), Tail(data))

StatusColor(st) ==
    CASE st = "Ignore" -> "#94a3b8"
      [] st = "Watch" -> "#f59e0b"
      [] st = "Interesting" -> "#22c55e"
      [] OTHER -> "#94a3b8"

StartupRow(item) ==
    [key |-> item.id, cells |-> <<item.id, item.status, StatusColor(item.status)>>]

StartupItemMalformed(item) ==
    ~ ({"id", "status"} \subseteq DOMAIN item)

RECURSIVE AddStartupRows(_, _)
AddStartupRows(rows, data) ==
    IF data = <<>> THEN [rows |-> rows, exc |-> ""]
    ELSE IF StartupItemMalformed(Head(data)) THEN [rows |-> rows, exc |-> "KeyError"]
    ELSE IF Head(data).id \in Keys(rows) THEN [rows |-> rows, exc |-> "DuplicateKey"]
    ELSE AddStartupRows(Append(rows, StartupRow(Head(data))), Tail(data))

(***************************************************************************)
(* Whether a view holds the whole of an answer: the snapshot of the body,  *)
(* or one row per item, in the order of the body.  The history variable    *)
(* exact records it when the answer is applied.                            *)
(***************************************************************************)
OverviewHolds(ov, data) ==
    /\ ~ OverviewMalformed(data)
    /\ ov.as_of = data.as_of
    /\ ov.advances = data.advance_decline.advances
    /\ ov.declines = data.advance_decline.declines

StocksHold(rows, data) ==
    /\ Len(rows) = Len(data)
    /\ \A i \in 1..Len(data) :
          ~ StockItemMalformed(data[i]) /\ rows[i] = StockRow(data[i])

StartupsHold(rows, data) ==
    /\ Len(rows) = Len(data)
    /\ \A i \in 1..Len(data) :
          ~ StartupItemMalformed(data[i]) /\ rows[i] = StartupRow(data[i])

(***************************************************************************)
(* "except Exception": every exception a fetch or the processing of its    *)
(* answer raises is caught by the coroutine that issued the fetch.         *)
(***************************************************************************)
CaughtOnlyHTTPStatus(exc) == exc = "HTTPStatus"

Caught(exc) == TRUE

(***************************************************************************)
(* asyncio.gather returns when every coroutine passed to it has returned,  *)
(* or as soon as one of them has raised.                                   *)
(***************************************************************************)
GatherAny == \E c \in Categories : task_pc[c] \in {"done", "raised"}

GatherSettled ==
    \/ \E c \in Categories : task_pc[c] = "raised"
    \/ \A c \in Categories : task_pc[c] = "done"

(***************************************************************************)
(* load_data, up to the await of asyncio.gather: the status line is set    *)
(* and the three coroutines are scheduled.                                 *)
(***************************************************************************)
Answers(c, r) == source.fixed => r = source.answers[c]

Snapshot == <<overview_loading, overview, stocks_rows, startups_rows, status>>

LoadDataStart ==
    /\ UNCHANGED <<detailVars, apiVars, sparkVars>>
    /\ ld_pc \in {"idle", "done"}
    /\ cycles < MaxCycles
    /\ cycles' = cycles + 1
    /\ status' = Fetching
    /\ ld_pc' = "gather"
    /\ task_pc' = [c \in Categories |-> "scheduled"]
    /\ last_error' = NoError
    /\ UNCHANGED <<overview_loading, overview, stocks_rows, startups_rows,
                   outcome, exact, unhandled, source, first_view, last_good>>

(***************************************************************************)
(* load_data after gather: an exception of a coroutine is re-raised by     *)
(* gather, otherwise the status line becomes "Ready".                      *)
(***************************************************************************)
LoadDataFinishCounting ==
    /\ UNCHANGED <<detailVars, apiVars, sparkVars>>
    /\ ld_pc = "gather"
    /\ GatherSettled
    /\ IF \E c \in Categories : task_pc[c] = "raised"
         THEN /\ ld_pc' = "raised"
              /\ unhandled' = unhandled \cup {"load_data"}
              /\ UNCHANGED status
         ELSE /\ ld_pc' = "done"
              /\ status' = Status("Ready", IF cycles = 1 THEN "first run" ELSE "again")
              /\ UNCHANGED unhandled
    /\ UNCHANGED <<overview_loading, overview, stocks_rows, startups_rows,
                   task_pc, cycles, outcome, exact, last_error>>
    /\ first_view' = IF source.fixed /\ cycles = 1 THEN Snapshot' ELSE first_view
    /\ UNCHANGED <<source, last_good>>

LoadDataFinish ==
    /\ UNCHANGED <<detailVars, apiVars, sparkVars>>
    /\ ld_pc = "gather"
    /\ GatherSettled
    /\ IF \E c \in Categories : task_pc[c] = "raised"
         THEN /\ ld_pc' = "raised"
              /\ unhandled' = unhandled \cup {"load_data"}
              /\ UNCHANGED status
         ELSE /\ ld_pc' = "done"
              /\ status' = Ready
              /\ UNCHANGED unhandled
    /\ UNCHANGED <<overview_loading, overview, stocks_rows, startups_rows,
                   task_pc, cycles, outcome, exact, last_error>>
    /\ first_view' = IF source.fixed /\ cycles = 1 THEN Snapshot' ELSE first_view
    /\ UNCHANGED <<source, last_good>>

(***************************************************************************)
(* The coroutines start in the order gather received them.                 *)
(***************************************************************************)
Order == <<"overview", "stocks", "startups">>

(* An answer arrives in a later iteration of the event loop than the one  *)
(* that ran the first segment of the three coroutines.                    *)
AllStarted == \A c \in Categories : task_pc[c] # "scheduled"

MayStart(c) ==
    /\ ld_pc = "gather"
    /\ task_pc[c] = "scheduled"
    /\ \A i \in 1..Len(Order) :
          Order[i] = c => \A j \in 1..(i - 1) : task_pc[Order[j]] # "scheduled"

(***************************************************************************)
(* load_market_overview up to the await of client.get.                     *)
(***************************************************************************)
LoadMarketOverviewStart ==
    /\ UNCHANGED <<detailVars, apiVars, sparkVars>>
    /\ MayStart("overview")
    /\ overview_loading' = TRUE
    /\ task_pc' = [task_pc EXCEPT !["overview"] = "inflight"]
    /\ outcome' = [outcome EXCEPT !["overview"] = "none"]
    /\ exact' = [exact EXCEPT !["overview"] = FALSE]
    /\ UNCHANGED <<status, overview, stocks_rows, startups_rows, ld_pc, cycles,
                   last_error, unhandled, source, first_view, last_good>>

(***************************************************************************)
(* The coroutine c ends: it has raised exc (and did not catch it) or       *)
(* returned.                                                               *)
(***************************************************************************)
TaskEnds(c, raised) ==
    /\ task_pc' = [task_pc EXCEPT ![c] = IF raised THEN "raised" ELSE "done"]
    /\ unhandled' = IF raised THEN unhandled \cup {c} ELSE unhandled

(***************************************************************************)
(* load_market_overview from the answer of client.get to the return.       *)
(* r is the exception of the fetch, or the JSON body.                      *)
(***************************************************************************)
OverviewFailure(exc) ==
    /\ outcome' = [outcome EXCEPT !["overview"] = "failed"]
    /\ IF Caught(exc)
         THEN /\ overview' = None
              /\ status' = Status("Overview error", exc)
              /\ last_error' = Status("Overview error", exc)
              /\ TaskEnds("overview", FALSE)
         ELSE /\ UNCHANGED <<overview, status, last_error>>
              /\ TaskEnds("overview", TRUE)

LoadMarketOverviewSettle(r) ==
    /\ UNCHANGED <<detailVars, apiVars, sparkVars>>
    /\ task_pc["overview"] = "inflight"
    /\ AllStarted
    /\ Answers("overview", r)
    /\ overview_loading' = FALSE
    /\ IF ~ r.ok
         THEN /\ OverviewFailure(r.exc)
              /\ UNCHANGED exact
         ELSE IF OverviewMalformed(r.body)
                THEN /\ OverviewFailure("KeyError")
                     /\ UNCHANGED exact
                ELSE /\ overview' = ParseOverview(r.body)
                     /\ exact' = [exact EXCEPT !["overview"] =
                                     OverviewHolds(overview', r.body)]
                     /\ outcome' = [outcome EXCEPT !["overview"] = "ok"]
                     /\ TaskEnds("overview", FALSE)
                     /\ UNCHANGED <<status, last_error>>
    /\ last_good' = IF outcome'["overview"] = "ok"
                      THEN [last_good EXCEPT !["overview"] = overview']
                      ELSE last_good
    /\ UNCHANGED <<stocks_rows, startups_rows, ld_pc, cycles, source, first_view>>

(***************************************************************************)
(* An answer follows the contract of its endpoint when every item has the  *)
(* fields of its record and no two items share their identity.  The        *)
(* history variable outcome is "ok" for such an answer and "failed" for a  *)
(* fetch that raised or an answer that breaks the contract.                *)
(***************************************************************************)
StocksConform(data) ==
    /\ \A i \in 1..Len(data) : ~ StockItemMalformed(data[i])
    /\ \A i, j \in 1..Len(data) : data[i].ticker = data[j].ticker => i = j

StartupsConform(data) ==
    /\ \A i \in 1..Len(data) : ~ StartupItemMalformed(data[i])
    /\ \A i, j \in 1..Len(data) : data[i].id = data[j].id => i = j

(***************************************************************************)
(* load_stocks up to the await of client.get: the table is cleared.        *)
(***************************************************************************)
LoadStocksStart ==
    /\ UNCHANGED <<detailVars, apiVars, sparkVars>>
    /\ MayStart("stocks")
    /\ stocks_rows' = <<>>
    /\ task_pc' = [task_pc EXCEPT !["stocks"] = "inflight"]
    /\ outcome' = [outcome EXCEPT !["stocks"] = "none"]
    /\ exact' = [exact EXCEPT !["stocks"] = FALSE]
    /\ UNCHANGED <<status, overview_loading, overview, startups_rows, ld_pc,
                   cycles, last_error, unhandled, source, first_view, last_good>>

(***************************************************************************)
(* The except clause of load_stocks / load_startups for the exception exc. *)
(***************************************************************************)
ListFailure(c, kind, exc) ==
    IF Caught(exc)
      THEN /\ status' = Status(kind, exc)
           /\ last_error' = Status(kind, exc)
           /\ TaskEnds(c, FALSE)
      ELSE /\ UNCHANGED <<status, last_error>>
           /\ TaskEnds(c, TRUE)

(***************************************************************************)
(* load_stocks from the answer of client.get to the return.                *)
(***************************************************************************)
LoadStocksSettle(r) ==
    /\ UNCHANGED <<detailVars, apiVars, sparkVars>>
    /\ task_pc["stocks"] = "inflight"
    /\ AllStarted
    /\ Answers("stocks", r)
    /\ IF ~ r.ok
         THEN /\ outcome' = [outcome EXCEPT !["stocks"] = "failed"]
              /\ ListFailure("stocks", "Stocks error", r.exc)
              /\ UNCHANGED <<stocks_rows, exact>>
         ELSE LET res == AddStockRows(stocks_rows, r.body) IN
              /\ exact' = [exact EXCEPT !["stocks"] =
                              StocksHold(res.rows, r.body)]
              /\ outcome' = [outcome EXCEPT !["stocks"] =
                                IF StocksConform(r.body) THEN "ok" ELSE "failed"]
              /\ stocks_rows' = res.rows
              /\ IF res.exc # ""
                   THEN ListFailure("stocks", "Stocks error", res.exc)
                   ELSE /\ TaskEnds("stocks", FALSE)
                        /\ UNCHANGED <<status, last_error>>
    /\ last_good' = IF outcome'["stocks"] = "ok"
                      THEN [last_good EXCEPT !["stocks"] = stocks_rows']
                      ELSE last_good
    /\ UNCHANGED <<overview_loading, overview, startups_rows, ld_pc, cycles, source, first_view>>

(***************************************************************************)
(* load_startups, the same two segments.                                   *)
(***************************************************************************)
LoadStartupsStart ==
    /\ UNCHANGED <<detailVars, apiVars, sparkVars>>
    /\ MayStart("startups")
    /\ startups_rows' = <<>>
    /\ task_pc' = [task_pc EXCEPT !["startups"] = "inflight"]
    /\ outcome' = [outcome EXCEPT !["startups"] = "none"]
    /\ exact' = [exact EXCEPT !["startups"] = FALSE]
    /\ UNCHANGED <<status, overview_loading, overview, stocks_rows, ld_pc,
                   cycles, last_error, unhandled, source, first_view, last_good>>

LoadStartupsSettle(r) ==
    /\ UNCHANGED <<detailVars, apiVars, sparkVars>>
    /\ task_pc["startups"] = "inflight"
    /\ AllStarted
    /\ Answers("startups", r)
    /\ IF ~ r.ok
         THEN /\ outcome' = [outcome EXCEPT !["startups"] = "failed"]
              /\ ListFailure("startups", "Startups error", r.exc)
              /\ UNCHANGED <<startups_rows, exact>>
         ELSE LET res == AddStartupRows(startups_rows, r.body) IN
              /\ exact' = [exact EXCEPT !["startups"] =
                              StartupsHold(res.rows, r.body)]
              /\ outcome' = [outcome EXCEPT !["startups"] =
                                IF StartupsConform(r.body) THEN "ok" ELSE "failed"]
              /\ startups_rows' = res.rows
              /\ IF res.exc # ""
                   THEN ListFailure("startups", "Startups error", res.exc)
                   ELSE /\ TaskEnds("startups", FALSE)
                        /\ UNCHANGED <<status, last_error>>
    /\ last_good' = IF outcome'["startups"] = "ok"
                      THEN [last_good EXCEPT !["startups"] = startups_rows']
                      ELSE last_good
    /\ UNCHANGED <<overview_loading, overview, stocks_rows, ld_pc, cycles, source, first_view>>

(***************************************************************************)
(* The detail records the API answers with: a stock with its three price   *)
(* series, a startup with its momentum points.                             *)
(***************************************************************************)
BasePrice(t) == IF t = "RELIANCE" THEN 10 ELSE 20

Points(prices) == [i \in 1..Len(prices) |-> [date |-> i, price |-> prices[i]]]

(* The record of a stock in the data source, its series under the keys of  *)
(* the timeframes, and the JSON the API serves for it.                     *)
StockSource(t) ==
    [ticker |-> t, name |-> t, price |-> BasePrice(t),
     series |-> [k \in TimeframeKeys |->
                    CASE k = "1M" -> Points(<<BasePrice(t) + 1, BasePrice(t)>>)
                      [] k = "6M" -> Points(<<BasePrice(t) + 2, BasePrice(t), BasePrice(t) + 3>>)
                      [] k = "1Y" -> Points(<<BasePrice(t) + 4>>)]]

(***************************************************************************)
(* StockSeries.from_dict and Stock.from_dict.                              *)
(***************************************************************************)
SeriesFromDictAllSixMonth(data) ==
    [one_month |-> IF "6M" \in DOMAIN data THEN data["6M"] ELSE <<>>,
     six_month |-> IF "6M" \in DOMAIN data THEN data["6M"] ELSE <<>>,
     one_year |-> IF "6M" \in DOMAIN data THEN data["6M"] ELSE <<>>]

SeriesFromDict(data) ==
    [one_month |-> IF "1M" \in DOMAIN data THEN data["1M"] ELSE <<>>,
     six_month |-> IF "6M" \in DOMAIN data THEN data["6M"] ELSE <<>>,
     one_year |-> IF "1Y" \in DOMAIN data THEN data["1Y"] ELSE <<>>]

StockFromDict(data) ==
    [name |-> data.name, ticker |-> data.ticker, price |-> data.price,
     series |-> SeriesFromDict(IF "series" \in DOMAIN data THEN data.series ELSE <<>>)]

StockJson(t) == StockFromDict(StockSource(t))

StartupJson(i) ==
    [id |-> i,
     name |-> IF i = "airship" THEN "Airship ML" ELSE "Voltgrid",
     momentum |-> IF i = "airship"
                    THEN <<[hiring |-> 3, buzz |-> 7], [hiring |-> 5, buzz |-> 9]>>
                    ELSE <<[hiring |-> 1, buzz |-> 2]>>]

DetailErrors == {"Timeout", "HTTPStatus"}

DetailResponses(body) == { Raised(e) : e \in DetailErrors } \cup { Body(body) }

(***************************************************************************)
(* StockDetailView.update_stock: the prices of the series the timeframe    *)
(* names go to the sparkline.                                              *)
(***************************************************************************)
SeriesKey(tf) ==
    CASE tf = "1M" -> "one_month"
      [] tf = "6M" -> "six_month"
      [] tf = "1Y" -> "one_year"
      [] OTHER -> "six_month"

SeriesValues(stock, tf) ==
    LET series == stock.series[SeriesKey(tf)]
    IN  [i \in 1..Len(series) |-> series[i].price]

UpdateStock(stock, tf) ==
    /\ current_stock' = stock
    /\ timeframe' = tf
    /\ sd_text' = DetailText(stock.ticker)
    /\ sd_label' = tf
    /\ sd_values' = SeriesValues(stock, tf)

(***************************************************************************)
(* StockDetailView.handle_timeframe_click on one of the three buttons.     *)
(***************************************************************************)
Buttons == {"tf_1m", "tf_6m", "tf_1y"}

ButtonTimeframe(btn) ==
    CASE btn = "tf_1m" -> "1M"
      [] btn = "tf_6m" -> "6M"
      [] btn = "tf_1y" -> "1Y"

HandleTimeframeClick(btn) ==
    /\ current_stock # None
    /\ tf_active' = {btn}
    /\ UpdateStock(current_stock, ButtonTimeframe(btn))
    /\ UNCHANGED <<sd_calls, sd_started, sd_log>>
    /\ UNCHANGED <<refreshVars, startupDetailVars, insightVars, apiVars, sparkVars>>

(***************************************************************************)
(* A RowHighlighted event of a table, for one of its rows.  Both handlers  *)
(* receive it; each returns unless the event is of its own table, and      *)
(* otherwise calls its render coroutine, which runs up to the await of     *)
(* client.get.                                                             *)
(***************************************************************************)
Tables == {"stocks_table", "startups_table"}

RowKeys(tbl) == IF tbl = "stocks_table" THEN Keys(stocks_rows) ELSE Keys(startups_rows)

ShowStockDetail(tbl, key) ==
    IF tbl # "stocks_table"
      THEN UNCHANGED <<sd_calls, sd_started>>
      ELSE /\ sd_started' = sd_started + 1
           /\ sd_calls' = sd_calls \cup {[id |-> sd_started + 1, ticker |-> key]}

ShowStartupDetailOfAnyTable(tbl, key) ==
    /\ su_started' = su_started + 1
    /\ su_calls' = su_calls \cup {[id |-> su_started + 1, startup_id |-> key]}

ShowStartupDetail(tbl, key) ==
    IF tbl # "startups_table"
      THEN UNCHANGED <<su_calls, su_started>>
      ELSE /\ su_started' = su_started + 1
           /\ su_calls' = su_calls \cup {[id |-> su_started + 1, startup_id |-> key]}

RowHighlighted(tbl, key) ==
    /\ key \in RowKeys(tbl)
    /\ tbl = "stocks_table" => sd_started < MaxStockFetches
    /\ tbl = "startups_table" => su_started < MaxStartupFetches
    /\ ShowStockDetail(tbl, key)
    /\ ShowStartupDetail(tbl, key)
    /\ UNCHANGED <<sd_text, sd_values, sd_label, current_stock, timeframe,
                   tf_active, sd_log, su_text, su_hiring, su_buzz, su_log>>
    /\ UNCHANGED <<refreshVars, insightVars, apiVars, sparkVars>>

(***************************************************************************)
(* render_stock_detail from the answer of client.get to the return.        *)
(***************************************************************************)
StockDetailFailureToStatus(ticker, exc) ==
    /\ sd_text' = FailedToLoad(ticker, exc)
    /\ sd_values' = <<>>
    /\ status' = Status("Stocks error", exc)
    /\ UNCHANGED <<sd_label, current_stock, timeframe>>

StockDetailFailure(ticker, exc) ==
    /\ sd_text' = FailedToLoad(ticker, exc)
    /\ sd_values' = <<>>
    /\ UNCHANGED <<sd_label, current_stock, timeframe, status>>

RenderStockDetailSettle(call, r) ==
    /\ call \in sd_calls
    /\ sd_calls' = sd_calls \ {call}
    /\ sd_log' = Append(sd_log, [id |-> call.id, ticker |-> call.ticker, ok |-> r.ok])
    /\ IF ~ r.ok
         THEN StockDetailFailure(call.ticker, r.exc)
         ELSE /\ UpdateStock(r.body, "6M")
              /\ UNCHANGED status
    /\ UNCHANGED <<tf_active, sd_started>>
    /\ UNCHANGED <<overview_loading, overview, stocks_rows, startups_rows, ld_pc,
                   task_pc, cycles, outcome, exact, last_error, unhandled,
                   source, first_view, last_good>>
    /\ UNCHANGED <<startupDetailVars, insightVars, apiVars, sparkVars>>

(***************************************************************************)
(* StartupDetailView.update_startup and render_startup_detail.             *)
(***************************************************************************)
UpdateStartup(startup) ==
    /\ su_text' = DetailText(startup.name)
    /\ su_hiring' = [i \in 1..Len(startup.momentum) |-> startup.momentum[i].hiring]
    /\ su_buzz' = [i \in 1..Len(startup.momentum) |-> startup.momentum[i].buzz]

StartupDetailFailure(startup_id, exc) ==
    /\ su_text' = FailedToLoad(startup_id, exc)
    /\ su_hiring' = <<>>
    /\ su_buzz' = <<>>

RenderStartupDetailSettle(call, r) ==
    /\ call \in su_calls
    /\ su_calls' = su_calls \ {call}
    /\ su_log' = Append(su_log, [id |-> call.id, startup_id |-> call.startup_id, ok |-> r.ok])
    /\ IF ~ r.ok
         THEN StartupDetailFailure(call.startup_id, r.exc)
         ELSE UpdateStartup(r.body)
    /\ UNCHANGED su_started
    /\ UNCHANGED <<refreshVars, stockDetailVars, insightVars, apiVars, sparkVars>>

(***************************************************************************)
(* handle_ask_ai_stock, a click on the Ask AI button of the stock detail   *)
(* pane: with a current stock, the insights tab becomes active and the     *)
(* insight pane is asked about the ticker of current_stock.                *)
(***************************************************************************)
AskAbout(topic) == ai_topic' = topic

HandleAskAiStock ==
    /\ current_stock # None
    /\ active_tab' = "insights"
    /\ AskAbout(current_stock.ticker)
    /\ UNCHANGED <<refreshVars, stockDetailVars, startupDetailVars, apiVars, sparkVars>>

(***************************************************************************)
(* The API.  The router tries the routes in the order the decorators       *)
(* registered them and calls the endpoint of the first whose path matches; *)
(* a path parameter matches any one segment.                               *)
(***************************************************************************)
Lit(x) == [param |-> FALSE, text |-> x]
Param(x) == [param |-> TRUE, text |-> x]

Routes ==
    << [path |-> <<Lit("api"), Lit("stocks"), Lit("overview")>>, endpoint |-> "get_market_overview"],
       [path |-> <<Lit("api"), Lit("stocks")>>, endpoint |-> "list_stocks"],
       [path |-> <<Lit("api"), Lit("stocks"), Param("ticker")>>, endpoint |-> "get_stock"],
       [path |-> <<Lit("api"), Lit("stocks"), Lit("watchlist")>>, endpoint |-> "get_watchlist"],
       [path |-> <<Lit("api"), Lit("startups")>>, endpoint |-> "list_startups"],
       [path |-> <<Lit("api"), Lit("startups"), Param("startup_id")>>, endpoint |-> "get_startup"] >>

Matches(route, path) ==
    /\ Len(route.path) = Len(path)
    /\ \A i \in 1..Len(path) : route.path[i].param \/ route.path[i].text = path[i]

Matching(path) == { i \in 1..Len(Routes) : Matches(Routes[i], path) }

FirstMatch(path) == CHOOSE i \in Matching(path) : \A j \in Matching(path) : i <= j

Ok(endpoint, body) == [status |-> 200, endpoint |-> endpoint, body |-> body]
NotFound(endpoint, detail) == [status |-> 404, endpoint |-> endpoint, detail |-> detail]

(***************************************************************************)
(* get_stock and get_startup: the first record of the list with the        *)
(* requested identity, or 404.                                             *)
(***************************************************************************)
RECURSIVE GetStockFrom(_, _)
GetStockFrom(stocks, ticker) ==
    IF stocks = <<>> THEN NotFound("get_stock", "Stock not found")
    ELSE IF Head(stocks).ticker = ticker THEN Ok("get_stock", StockFromDict(Head(stocks)))
    ELSE GetStockFrom(Tail(stocks), ticker)

GetStockIgnoringTicker(ticker) ==
    IF STOCKS = <<>> THEN NotFound("get_stock", "Stock not found")
    ELSE Ok("get_stock", StockFromDict(Head(STOCKS)))

GetStock(ticker) == GetStockFrom(STOCKS, ticker)

RECURSIVE GetStartupFrom(_, _)
GetStartupFrom(startups, startup_id) ==
    IF startups = <<>> THEN NotFound("get_startup", "Startup not found")
    ELSE IF Head(startups).id = startup_id THEN Ok("get_startup", Head(startups))
    ELSE GetStartupFrom(Tail(startups), startup_id)

GetStartup(startup_id) == GetStartupFrom(STARTUPS, startup_id)

Endpoint(name, path) ==
    CASE name = "get_market_overview" -> Ok(name, "MARKET_OVERVIEW")
      [] name = "list_stocks" -> Ok(name, [i \in 1..Len(STOCKS) |-> StockFromDict(STOCKS[i])])
      [] name = "get_stock" -> GetStock(path[3])
      [] name = "get_watchlist" -> Ok(name, WATCHLIST)
      [] name = "list_startups" -> Ok(name, STARTUPS)
      [] name = "get_startup" -> GetStartup(path[3])

Dispatch(path) ==
    IF Matching(path) = {} THEN NotFound("", "Not Found")
    ELSE Endpoint(Routes[FirstMatch(path)].endpoint, path)

(***************************************************************************)
(* The GET requests of the model.                                          *)
(***************************************************************************)
RequestPaths ==
    { <<"api", "stocks">>, <<"api", "startups">>, <<"api", "news">> }
    \cup { <<"api", "stocks", x>> : x \in Tickers \cup {"ZZZZ", "overview", "watchlist"} }
    \cup { <<"api", "startups", x>> : x \in StartupIds \cup {"zzzz"} }

Get(path) ==
    /\ api_request' = path
    /\ api_response' = Dispatch(path)
    /\ UNCHANGED <<STOCKS, STARTUPS, WATCHLIST>>
    /\ UNCHANGED <<refreshVars, detailVars, sparkVars>>

NextApi == \E path \in RequestPaths : Get(path)

SpecApi == InitApi /\ [][NextApi]_vars

(***************************************************************************)
(* A sparkline on its own: set_values stores the values and refreshes, and *)
(* the refresh renders them.                                               *)
(***************************************************************************)
SparkInputs == SeqsUpTo(0..MaxValue, MaxSparkLen)

SetValues(values) ==
    /\ sp_values' = values
    /\ sp_text' = Render(values)
    /\ UNCHANGED <<refreshVars, detailVars, apiVars>>

NextSpark == \E values \in SparkInputs : SetValues(values)

SpecSpark == Init /\ [][NextSpark]_vars

Next ==
    \/ LoadDataStart
    \/ LoadDataFinish
    \/ LoadMarketOverviewStart
    \/ \E r \in Responses(OverviewBodies) : LoadMarketOverviewSettle(r)
    \/ LoadStocksStart
    \/ \E r \in Responses(StockListBodies) : LoadStocksSettle(r)
    \/ LoadStartupsStart
    \/ \E r \in Responses(StartupListBodies) : LoadStartupsSettle(r)

Spec == Init /\ [][Next]_vars

(* The refresh cycles over a data source that does not change. *)
SpecUnchanged == InitUnchanged /\ [][Next]_vars

(***************************************************************************)
(* The dashboard with its detail panes: one refresh cycle that fills the   *)
(* tables, then row selections, timeframe clicks and the answers of the    *)
(* detail fetches in any order.                                            *)
(***************************************************************************)
SampleOverview ==
    {Raised("Timeout"),
     Body([as_of |-> "09:15", advance_decline |-> [advances |-> 30, declines |-> 20]])}

SampleStocks ==
    {Raised("Timeout"),
     Body(<<[ticker |-> "RELIANCE", price |-> 100, daily_change_pct |-> 1],
            [ticker |-> "TCS", price |-> 100, daily_change_pct |-> 1]>>)}

SampleStartups ==
    {Raised("Timeout"),
     Body(<<[id |-> "airship", status |-> "Watch"]>>)}

NextDetail ==
    \/ cycles = 0 /\ LoadDataStart
    \/ LoadDataFinish
    \/ LoadMarketOverviewStart
    \/ \E r \in SampleOverview : LoadMarketOverviewSettle(r)
    \/ LoadStocksStart
    \/ \E r \in SampleStocks : LoadStocksSettle(r)
    \/ LoadStartupsStart
    \/ \E r \in SampleStartups : LoadStartupsSettle(r)
    \/ \E tbl \in Tables : \E key \in RowKeys(tbl) : RowHighlighted(tbl, key)
    \/ \E call \in sd_calls : \E r \in DetailResponses(StockJson(call.ticker)) :
          RenderStockDetailSettle(call, r)
    \/ \E btn \in Buttons : HandleTimeframeClick(btn)
    \/ HandleAskAiStock
    \/ \E call \in su_calls : \E r \in DetailResponses(StartupJson(call.startup_id)) :
          RenderStartupDetailSettle(call, r)

SpecDetail == Init /\ [][NextDetail]_vars

(***************************************************************************)
(* Scheduling: the event loop runs every coroutine that is ready, and the  *)
(* await of client.get returns within timeout=10 with an answer or an      *)
(* exception.                                                              *)
(***************************************************************************)
FairSpec ==
    /\ Spec
    /\ WF_vars(LoadDataFinish)
    /\ WF_vars(LoadMarketOverviewStart)
    /\ WF_vars(LoadStocksStart)
    /\ WF_vars(LoadStartupsStart)
    /\ WF_vars(\E r \in Responses(OverviewBodies) : LoadMarketOverviewSettle(r))
    /\ WF_vars(\E r \in Responses(StockListBodies) : LoadStocksSettle(r))
    /\ WF_vars(\E r \in Responses(StartupListBodies) : LoadStartupsSettle(r))

(***************************************************************************)
(* What the screen tells about a category.  The overview panel renders     *)
(* "Loading market overview..." while loading, "No market overview data."  *)
(* without a snapshot, and the snapshot otherwise.  A table shows its      *)
(* rows; that its load failed is told by the status line only.             *)
(***************************************************************************)
OverviewViewState ==
    IF overview_loading THEN "not-yet-loaded"
    ELSE IF overview = None THEN "load-failed"
    ELSE "loaded"

TableViewState(rows, kind) ==
    IF status.kind = kind THEN "load-failed"
    ELSE IF rows # <<>> THEN "loaded"
    ELSE "not-yet-loaded"

ViewState(c) ==
    CASE c = "overview" -> OverviewViewState
      [] c = "stocks" -> TableViewState(stocks_rows, "Stocks error")
      [] c = "startups" -> TableViewState(startups_rows, "Startups error")

(* The part of the view a category owns. *)
View(c) ==
    CASE c = "overview" -> <<overview_loading, overview>>
      [] c = "stocks" -> <<stocks_rows>>
      [] c = "startups" -> <<startups_rows>>

Unsettled == { c \in Categories : task_pc[c] \in {"scheduled", "inflight"} }

(***************************************************************************)
(* C1: once no stock detail fetch is in flight, and the fetch started last *)
(* has succeeded, the stock detail pane (text and sparkline) shows the     *)
(* stock of that fetch: the answer of a superseded fetch is discarded.     *)
(***************************************************************************)
LastStockCall == CHOOSE e \in { sd_log[i] : i \in 1..Len(sd_log) } : e.id = sd_started

C1_LastSelectionWins ==
    (sd_started > 0 /\ sd_calls = {} /\ LastStockCall.ok) =>
        /\ sd_text = DetailText(LastStockCall.ticker)
        /\ sd_values = SeriesValues(StockJson(LastStockCall.ticker), timeframe)

(***************************************************************************)
(* C2: after a completed refresh cycle, every category whose fetch         *)
(* succeeded is loaded with exactly the fetched data, every category whose *)
(* fetch failed is load-failed, and no category is not-yet-loaded.         *)
(***************************************************************************)
C2_PerCategoryIsolation ==
    ld_pc = "done" =>
        \A c \in Categories :
            /\ outcome[c] = "ok" => ViewState(c) = "loaded" /\ exact[c]
            /\ outcome[c] = "failed" => ViewState(c) = "load-failed"
            /\ ViewState(c) # "not-yet-loaded"

(***************************************************************************)
(* C3: after load_data has completed, the status line is "Ready" if no     *)
(* category failed in the cycle, and otherwise the error string of the     *)
(* last category that failed.                                              *)
(***************************************************************************)
C3_FinalStatus ==
    ld_pc = "done" =>
        status = (IF last_error = NoError THEN Ready ELSE last_error)

(***************************************************************************)
(* C4: no step applies the answer of one fetch to its category's view      *)
(* while another fetch of the same cycle has not settled.                  *)
(***************************************************************************)
C4_BatchApplication ==
    [][\A c \in Categories :
          (task_pc[c] = "inflight" /\ task_pc'[c] # "inflight" /\ View(c)' # View(c))
              => Unsettled \subseteq {c}]_vars

(***************************************************************************)
(* C5: a cycle sets the status line to "Fetching data" when it starts;     *)
(* every change of the overview panel or of a table happens after that     *)
(* and before the status line becomes "Ready".                             *)
(***************************************************************************)
C5_StatusOrdering ==
    [][/\ (ld_pc # "gather" /\ ld_pc' = "gather") => status' = Fetching
       /\ (\E c \in Categories : View(c)' # View(c))
             => /\ ld_pc = "gather" /\ ld_pc' = "gather"
                /\ status \notin {Idle, Ready} /\ status' \notin {Idle, Ready}
       /\ (status # Ready /\ status' = Ready)
             => ld_pc = "gather" /\ Unsettled = {}]_vars

C5_Witness ==
    /\ ld_pc = "done"
    /\ status = Ready
    /\ overview # None
    /\ stocks_rows # <<>>
    /\ startups_rows # <<>>

(***************************************************************************)
(* C6: in every state the screen tells, for each category, which of        *)
(* not-yet-loaded, loaded and load-failed it is in: a list whose fetch     *)
(* failed does not look like one not yet loaded, nor like one loaded.      *)
(***************************************************************************)
C6_ThreeStateLoad ==
    \A c \in Categories :
        /\ outcome[c] = "none" => ViewState(c) = "not-yet-loaded"
        /\ outcome[c] = "ok" => ViewState(c) = "loaded"
        /\ outcome[c] = "failed" => ViewState(c) = "load-failed"

(***************************************************************************)
(* C7: when the fetch of render_stock_detail (render_startup_detail)       *)
(* fails, the sparkline values of that pane become empty and its text the  *)
(* error message of the requested identity; the two tables, the overview   *)
(* panel, the other detail pane and the status line do not change.         *)
(***************************************************************************)
StockDetailFailed == Len(sd_log') > Len(sd_log) /\ ~ sd_log'[Len(sd_log')].ok

StartupDetailFailed == Len(su_log') > Len(su_log) /\ ~ su_log'[Len(su_log')].ok

C7_DetailFailureIsolation ==
    [][/\ StockDetailFailed =>
            /\ sd_values' = <<>>
            /\ sd_text'.kind = "error"
            /\ sd_text'.subject = sd_log'[Len(sd_log')].ticker
            /\ UNCHANGED <<stocks_rows, startups_rows, overview_loading, overview,
                           status, su_text, su_hiring, su_buzz>>
       /\ StartupDetailFailed =>
            /\ su_hiring' = <<>>
            /\ su_buzz' = <<>>
            /\ su_text'.kind = "error"
            /\ su_text'.subject = su_log'[Len(su_log')].startup_id
            /\ UNCHANGED <<stocks_rows, startups_rows, overview_loading, overview,
                           status, sd_text, sd_values, sd_label>>]_vars

C7_Witness ==
    /\ stocks_rows # <<>>
    /\ startups_rows # <<>>
    /\ \E i \in 1..Len(sd_log) : sd_log[i].ok
    /\ sd_log # <<>> /\ ~ sd_log[Len(sd_log)].ok
    /\ sd_text.kind = "error" /\ sd_values = <<>>
    /\ su_log # <<>> /\ ~ su_log[Len(su_log)].ok
    /\ su_text.kind = "error"

(***************************************************************************)
(* C8: no coroutine of a refresh cycle ends with an exception, and a       *)
(* cycle that has set "Fetching data" reaches its end, where the status    *)
(* line is set to "Ready".                                                 *)
(***************************************************************************)
C8_CycleSettles ==
    /\ [](unhandled = {})
    /\ (ld_pc = "gather") ~> (ld_pc = "done" /\ status = Ready)

C8_Witness ==
    /\ ld_pc = "done"
    /\ status = Ready
    /\ \A c \in Categories : outcome[c] = "failed"


(***************************************************************************)
(* C9: GET /api/stocks/watchlist is answered by get_watchlist with the     *)
(* watchlist (200), and GET /api/stocks/overview by get_market_overview;   *)
(* neither is answered by get_stock.                                       *)
(***************************************************************************)
C9_WatchlistRoute ==
    /\ api_request = <<"api", "stocks", "watchlist">> =>
          api_response = Ok("get_watchlist", WATCHLIST)
    /\ api_request = <<"api", "stocks", "overview">> =>
          api_response.status = 200 /\ api_response.endpoint = "get_market_overview"

(***************************************************************************)
(* C10 as stated: GET /api/stocks/{x} returns the record of ticker x for   *)
(* every x in the stock list, and 404 "Stock not found" for every other    *)
(* x; likewise /api/startups/{x} with "Startup not found".                 *)
(***************************************************************************)
StockTickers == { STOCKS[i].ticker : i \in 1..Len(STOCKS) }
StartupIdsServed == { STARTUPS[i].id : i \in 1..Len(STARTUPS) }

IsDetailRequest(list) == Len(api_request) = 3 /\ api_request[2] = list

StockLookupRight ==
    IF api_request[3] \in StockTickers
      THEN api_response.status = 200 /\ api_response.body.ticker = api_request[3]
      ELSE api_response = NotFound("get_stock", "Stock not found")

StartupLookupRight ==
    IF api_request[3] \in StartupIdsServed
      THEN api_response.status = 200 /\ api_response.body.id = api_request[3]
      ELSE api_response = NotFound("get_startup", "Startup not found")

C10_DetailLookup_Original ==
    /\ IsDetailRequest("stocks") => StockLookupRight
    /\ IsDetailRequest("startups") => StartupLookupRight

(***************************************************************************)
(* C10, amended: the same for every x other than "overview", the path      *)
(* segment of the market overview route, which is registered first.        *)
(***************************************************************************)
C10_DetailLookup ==
    /\ (IsDetailRequest("stocks") /\ api_request[3] # "overview") => StockLookupRight
    /\ IsDetailRequest("startups") => StartupLookupRight

C10_Witness ==
    /\ Len(STOCKS) = 2
    /\ api_request = <<"api", "stocks", STOCKS[2].ticker>>
    /\ api_response.status = 200
    /\ api_response.body.ticker = STOCKS[2].ticker

(***************************************************************************)
(* C11 as stated: for every non-empty sequence of values, the bucket of    *)
(* each value is round((value - min) / span * 7), where span is max - min  *)
(* if max differs from min and 1 otherwise.                                *)
(***************************************************************************)
SpMin == MinOf(sp_values)
SpMax == MaxOf(sp_values)
SpSpan == IF SpMax # SpMin THEN SpMax - SpMin ELSE 1

C11_BucketFormula_Original ==
    sp_values # <<>> =>
        /\ sp_text.kind = "line"
        /\ \A i \in 1..Len(sp_values) :
              sp_text.scaled[i] = RoundHalfEven(7 * (sp_values[i] - SpMin), SpSpan)

(***************************************************************************)
(* C11, amended: the bucket of each value is (value - min) / span * 7      *)
(* truncated to an integer (int(), not round()): the largest b with        *)
(* b * span <= 7 * (value - min).                                          *)
(***************************************************************************)
C11_BucketFormula ==
    sp_values # <<>> =>
        /\ sp_text.kind = "line"
        /\ Len(sp_text.scaled) = Len(sp_values)
        /\ \A i \in 1..Len(sp_values) :
              /\ sp_text.scaled[i] * SpSpan <= 7 * (sp_values[i] - SpMin)
              /\ 7 * (sp_values[i] - SpMin) < (sp_text.scaled[i] + 1) * SpSpan

C11_Witness ==
    /\ sp_values = <<0, 1, 2>>
    /\ sp_text.kind = "line"
    /\ sp_text.scaled = <<0, 3, 7>>

(***************************************************************************)
(* C12: a non-empty sequence of equal values renders the lowest glyph for  *)
(* every value, with no division error; the empty sequence renders the     *)
(* "(no data)" placeholder, not an empty line and not an error.            *)
(***************************************************************************)
AllEqual(values) == \A i, j \in 1..Len(values) : values[i] = values[j]

C12_DegenerateInputs ==
    /\ (sp_values # <<>> /\ AllEqual(sp_values)) =>
          /\ sp_text.kind = "line"
          /\ sp_text.line = [i \in 1..Len(sp_values) |-> Blocks[1]]
    /\ sp_values = <<>> => sp_text = NoData

C12_Witness ==
    /\ Len(sp_values) = 3
    /\ AllEqual(sp_values)
    /\ sp_values[1] > 0
    /\ sp_text.kind = "line"

(***************************************************************************)
(* C13: for every two positions i, j of the values with                    *)
(* value[i] <= value[j], bucket[i] <= bucket[j].                           *)
(***************************************************************************)
C13_Monotone ==
    sp_values # <<>> =>
        /\ sp_text.kind = "line"
        /\ \A i, j \in 1..Len(sp_values) :
              sp_values[i] <= sp_values[j] => sp_text.scaled[i] <= sp_text.scaled[j]

C13_Witness ==
    /\ Len(sp_values) = 3
    /\ sp_values[1] < sp_values[2] /\ sp_values[2] < sp_values[3]
    /\ sp_text.kind = "line"
    /\ sp_text.scaled[1] < sp_text.scaled[2] /\ sp_text.scaled[2] < sp_text.scaled[3]

(***************************************************************************)
(* C20: for every non-empty sequence of values every bucket is in 0..7,    *)
(* the minimum has bucket 0 and, unless all values are equal, the maximum  *)
(* has bucket 7.                                                           *)
(***************************************************************************)
C20_BucketRange ==
    sp_values # <<>> =>
        /\ sp_text.kind = "line"
        /\ \A i \in 1..Len(sp_values) :
              /\ sp_text.scaled[i] \in 0..7
              /\ sp_values[i] = SpMin => sp_text.scaled[i] = 0
              /\ (sp_values[i] = SpMax /\ ~ AllEqual(sp_values)) => sp_text.scaled[i] = 7

C20_Witness ==
    /\ Len(sp_values) = 3
    /\ ~ AllEqual(sp_values)
    /\ sp_text.kind = "line"
    /\ \E i, j \in 1..3 : sp_text.scaled[i] = 0 /\ sp_text.scaled[j] = 7

(***************************************************************************)
(* C15: whenever the stock detail pane shows its current stock, the chart  *)
(* values are the prices of the series the data source keeps for that      *)
(* stock under the key of the current timeframe, and a detail that has     *)
(* just been loaded is drawn with the series of "6M".                      *)
(***************************************************************************)
PricesOf(points) == [i \in 1..Len(points) |-> points[i].price]

SourceSeries(ticker, tf) == PricesOf(StockSource(ticker).series[tf])

ShowsCurrentStock ==
    current_stock # None /\ sd_text = DetailText(current_stock.ticker)

StockDetailLoaded == Len(sd_log') > Len(sd_log) /\ sd_log'[Len(sd_log')].ok

C15_TimeframeBucket ==
    /\ [](ShowsCurrentStock =>
            /\ timeframe \in TimeframeKeys
            /\ sd_label = timeframe
            /\ sd_values = SourceSeries(current_stock.ticker, timeframe))
    /\ [][StockDetailLoaded =>
            /\ timeframe' = "6M"
            /\ sd_values' = SourceSeries(sd_log'[Len(sd_log')].ticker, "6M")]_vars

C15_Witness ==
    /\ ShowsCurrentStock
    /\ current_stock.ticker = "TCS"
    /\ timeframe = "1Y"
    /\ sd_values = <<24>>

(***************************************************************************)
(* C17: current_stock names no stock other than the one the pane shows;    *)
(* after a failed detail load the pane keeps an error message and an empty *)
(* chart until a detail load succeeds, and an Ask AI click asks about the  *)
(* stock the pane shows.                                                   *)
(***************************************************************************)
AskedAi == ai_topic' # ai_topic \/ active_tab' # active_tab

C17_NoStaleStock ==
    /\ [](current_stock # None => sd_text = DetailText(current_stock.ticker))
    /\ [][(sd_text.kind = "error" /\ ~ StockDetailLoaded) =>
              (sd_text'.kind = "error" /\ sd_values' = <<>>)]_vars
    /\ [][AskedAi => sd_text = DetailText(ai_topic')]_vars

(***************************************************************************)
(* C18: the timeframe buttons that carry the class "active" are exactly    *)
(* the one button that names StockDetailView.timeframe.                    *)
(***************************************************************************)
C18_TimeframeIndicator ==
    tf_active = { btn \in Buttons : ButtonTimeframe(btn) = timeframe }

(***************************************************************************)
(* C19: once load_stocks or load_startups has returned, its table holds    *)
(* one row for every item of the answer, in the order of the answer, or no *)
(* row at all.                                                             *)
(***************************************************************************)
C19_AllOrNothing ==
    /\ task_pc["stocks"] = "done" => (stocks_rows = <<>> \/ exact["stocks"])
    /\ task_pc["startups"] = "done" => (startups_rows = <<>> \/ exact["startups"])

(***************************************************************************)
(* C14: over a data source that does not change, every run of load_data    *)
(* after the first leaves the overview panel, the rows of both tables and  *)
(* the status line as the first run left them.                             *)
(***************************************************************************)
C14_RefreshIdempotent ==
    (source.fixed /\ ld_pc = "done" /\ cycles >= 2) => Snapshot = first_view

C14_Witness ==
    /\ source.fixed
    /\ ld_pc = "done"
    /\ cycles = 2
    /\ Len(stocks_rows) = 2
    /\ overview # None
    /\ startups_rows = <<>>
    /\ Snapshot = first_view

(***************************************************************************)
(* C16: a category whose fetch has once succeeded keeps, in its view, what *)
(* its most recent successful fetch put there, also while a later fetch of *)
(* the category is in flight and after a later fetch of it has failed.     *)
(***************************************************************************)
C16_SnapshotRetained ==
    /\ last_good["overview"] # None => overview = last_good["overview"]
    /\ last_good["stocks"] # <<>> => stocks_rows = last_good["stocks"]
    /\ last_good["startups"] # <<>> => startups_rows = last_good["startups"]

(***************************************************************************)
(* C21: a RowHighlighted event starts a stock detail fetch only for a row  *)
(* of the stocks table and a startup detail fetch only for a row of the    *)
(* startups table, never both; a stock detail fetch, from its start to its *)
(* answer or failure, leaves the startup detail pane, the dashboard and    *)
(* the insight pane as they are, and a startup detail fetch leaves the     *)
(* stock detail pane, the dashboard and the insight pane as they are.      *)
(***************************************************************************)
StockFetchStarted == sd_started' # sd_started

StartupFetchStarted == su_started' # su_started

StockFetchReturned == sd_log' # sd_log

StartupFetchReturned == su_log' # su_log

C21_RowHighlightDispatch ==
    [][/\ StockFetchStarted =>
            /\ \E call \in sd_calls' \ sd_calls :
                  /\ sd_calls' = sd_calls \cup {call}
                  /\ call.ticker \in Keys(stocks_rows)
            /\ UNCHANGED <<startupDetailVars, refreshVars, insightVars>>
       /\ StartupFetchStarted =>
            /\ \E call \in su_calls' \ su_calls :
                  /\ su_calls' = su_calls \cup {call}
                  /\ call.startup_id \in Keys(startups_rows)
            /\ UNCHANGED <<stockDetailVars, refreshVars, insightVars>>
       /\ StockFetchReturned =>
            UNCHANGED <<startupDetailVars, refreshVars, insightVars>>
       /\ StartupFetchReturned =>
            UNCHANGED <<stockDetailVars, refreshVars, insightVars>>]_vars

C21_Witness ==
    /\ \E i \in 1..Len(sd_log) : ~ sd_log[i].ok
    /\ \E i \in 1..Len(sd_log) : sd_log[i].ok
    /\ \E j \in 1..Len(su_log) : su_log[j].ok
    /\ sd_text.kind = "error"
    /\ su_text.kind = "detail"
    /\ su_hiring # <<>>
====
